---- MODULE Spec2Model ----
(***************************************************************************)
(* Model of build_serenity.py: the SerenityBuilder pipeline.  One process  *)
(* (one invocation of the script) walks through seven stages; external     *)
(* commands are opaque collaborators that run for a while, may touch the   *)
(* filesystem, and return an exit status.  The filesystem survives the     *)
(* process, so the script can be invoked again on what a run left behind.  *)
(***************************************************************************)
EXTENDS Integers, Sequences, FiniteSets, TLC

\* ------------------------------------------------------------------ bounds
\* Longest file content (in blocks) an external tool writes.
MaxLen == 2
\* Calendar days the model distinguishes (the %Y%m%d stamp of the artifact).
MaxDay == 1
\* Invocations of the script on the same working directory.
MaxRuns == 2
\* Bytes one block of modelled file content stands for.
BlockBytes == 100000

\* -------------------------------------------------------- program constants
\* 1024 * 1024, the divisor of every size the script reports.
BytesPerMB == 1048576
\* sys.exit(1)
ExitFailure == 1
\* The status of a process whose run() returned.
ExitSuccess == 0
\* gzip.open(..., compresslevel=9)
CompressLevel == 9

\* The block values the model distinguishes.
Symbols == {0}
Days == 1..MaxDay

\* ------------------------------------------------------------- option type
\* A path of the filesystem either holds nothing (None) or one content.
None == <<>>
Some(c) == <<c>>
Exists(f) == f /= None
Data(f) == f[1]

\* All contents of at most n blocks.
RECURSIVE SeqsUpTo(_)
SeqsUpTo(n) ==
  IF n = 0 THEN {<<>>}
  ELSE LET shorter == SeqsUpTo(n - 1)
       IN  shorter \cup {Append(s, b) : s \in {t \in shorter : Len(t) = n - 1}, b \in Symbols}

Contents == SeqsUpTo(MaxLen)

\* Path.stat().st_size
StSize(f) == Len(Data(f)) * BlockBytes

\* ---------------------------------------------------------------- the gzip
\* gzip as the script uses it: a header naming the format and the level, the
\* deflated payload (here: run lengths, the redundancy deflate removes), and
\* the trailer holding a checksum and the length of the input.
GzipMagic == 31

RECURSIVE RunLength(_)
RunLength(s) ==
  IF s = <<>> THEN <<>>
  ELSE LET rest == RunLength(Tail(s))
       IN  IF rest /= <<>> /\ rest[1] = Head(s)
           THEN <<Head(s), rest[2] + 1>> \o SubSeq(rest, 3, Len(rest))
           ELSE <<Head(s), 1>> \o rest

RECURSIVE Repeat(_, _)
Repeat(b, n) == IF n = 0 THEN <<>> ELSE <<b>> \o Repeat(b, n - 1)

RECURSIVE RunExpand(_)
RunExpand(p) ==
  IF Len(p) < 2 THEN <<>>
  ELSE Repeat(p[1], p[2]) \o RunExpand(SubSeq(p, 3, Len(p)))

RECURSIVE Checksum(_)
Checksum(s) == IF s = <<>> THEN 0 ELSE (Head(s) + 1 + 3 * Checksum(Tail(s))) % 251

GzipCompress(s) ==
  <<GzipMagic, CompressLevel>> \o RunLength(s) \o <<Checksum(s), Len(s)>>

\* gzip.decompress: the payload when the stream is well formed, else an error.
GzipDecompress(z) ==
  IF Len(z) < 4 \/ z[1] /= GzipMagic \/ (Len(z) - 4) % 2 /= 0
  THEN [ok |-> FALSE, data |-> <<>>]
  ELSE LET out == RunExpand(SubSeq(z, 3, Len(z) - 2))
       IN  IF Checksum(out) = z[Len(z) - 1] /\ Len(out) = z[Len(z)]
           THEN [ok |-> TRUE, data |-> out]
           ELSE [ok |-> FALSE, data |-> <<>>]

\* Mutant: a MB of 1000 * 1000 bytes.
FormatMBDecimal(bytes) == (2 * 100 * bytes + 1000000) \div (2 * 1000000)

\* f"{size / (1024 * 1024):.2f} MB": the size in hundredths of a MB, rounded
\* to the nearest hundredth.
FormatMB(bytes) == (2 * 100 * bytes + BytesPerMB) \div (2 * BytesPerMB)


\* ------------------------------------------------------------------- state
VARIABLES
  serenity_dir,      \* work_dir/serenity exists
  build_dir,         \* work_dir/serenity/Build/x86_64 exists
  grub_image,        \* build_dir/grub_uefi_disk_image: None or Some(content)
  output_image,      \* work_dir/serenity-x86_64-grub-uefi-<day>.img, per day
  compressed_image,  \* work_dir/serenity-x86_64-grub-uefi-<day>.img.gz, per day
  info_file,         \* work_dir/build-info.txt: None or Some(sequence of entries)
  environ,           \* os.environ.get('CI'): None or Some(value)
  today,             \* the calendar day the clock last reported
  run,               \* which invocation of the script this is
  pc,                \* where the driver is
  ret_pc,            \* where the driver continues when the running command returns 0
  running,           \* the external commands that have been started and not ended
  output_name,       \* compress_image's output_name / run's image_path: its day stamp
  original_size,     \* compress_image's original_size, in bytes
  exit_status,       \* {} while the process runs, {status} once it has exited
  log,               \* the notable lines the process has logged
  raised,            \* the exception run() caught in "except Exception"
  interrupted,       \* a KeyboardInterrupt reached run()
  stage_log,         \* the stages entered in this run, in order
  returned,          \* the stages that returned normally in this run, in order
  cmd_log,           \* the external commands started in this run, in order
  exit_log,          \* <<command, status>> of every command that ended in this run
  prev_exit,         \* exit_status of the previous invocation ({} for the first)
  response,          \* install_dependencies' response: what the operator typed
  written_by         \* the run whose ninja wrote the file now at grub_image, else 0

fsVars == <<serenity_dir, build_dir, grub_image, output_image, compressed_image, info_file>>
ctlVars == <<pc, exit_status, log, raised, returned>>
cmdVars == <<running, cmd_log, ret_pc>>
locVars == <<output_name, original_size>>
envVars == <<environ, today, run, prev_exit, interrupted>>
histVars == <<response, written_by>>
vars == <<fsVars, ctlVars, cmdVars, locVars, envVars, stage_log, exit_log, histVars>>

\* The stages, in the order run() calls them.
Stages ==
  << "clone_repository", "install_dependencies", "build_toolchain", "build_serenity",
     "build_grub_uefi_image", "compress_image", "create_artifact_info" >>

StageIndex(s) == CHOOSE i \in 1..Len(Stages) : Stages[i] = s

\* The external command lines.
GitClone == "git clone --depth 1 https://github.com/SerenityOS/serenity.git"
AptUpdate == "sudo apt-get update"
AptInstall == "sudo apt-get install -y"
GccProbe == "gcc-14 --version"
BuildIt == "./Toolchain/BuildIt.sh"
SerenityImage == "./Meta/serenity.sh image x86_64"
NinjaGrub == "ninja grub-uefi-image"
Commands == {GitClone, AptUpdate, AptInstall, GccProbe, BuildIt, SerenityImage, NinjaGrub}

\* The exit statuses an external command may return.
ExitStatuses == {0, 1, 2}

\* The values the CI variable may have in the environment of a process.
EnvValues == {None, Some(""), Some("true")}

\* The answers an operator may type at the prompt ("EOF": standard input closed).
Responses == {"y", "Y", "n", "yes", "", "EOF"}

\* Mutant: only the first letter of the answer counts.
LowerFirstLetter(r) == IF r \in {"Y", "yes"} THEN "y" ELSE r

\* str.lower() on the answers above.
Lower(r) == IF r = "Y" THEN "y" ELSE r

\* Python truth of os.environ.get('CI'): unset and the empty string are false.
Truthy(v) == v /= None /\ Data(v) /= ""

\* What the process prints on its abort paths.
MsgCommandFailed == "ERROR: Command failed with exit code"
\* Mutant: the missing directory is reported with the message of the check after ninja.
MsgNoBuildDirAsNoImage == "ERROR: GRUB UEFI image was not created!"

MsgNoBuildDir == "ERROR: Build directory not found"
MsgNoImage == "ERROR: GRUB UEFI image was not created!"
MsgNoDiskImage == "ERROR: Disk image not found"
MsgInterrupted == "Build interrupted by user"
MsgFatal == "FATAL ERROR"
MsgNoGcc == "WARNING: GCC 14 not found"
MsgSkipClone == "Repository already exists, skipping clone"
MsgSkipDeps == "Running in CI environment - skipping dependency installation"
MsgRemoving == "Removing existing GRUB UEFI image..."

\* The fixed blocks of build-info.txt.
UsageBlock == "Usage Instructions"
HardwareBlock == "Hardware Requirements"
CredentialsBlock == "Username: anon / Password: foo"

\* ------------------------------------------------------ construction, start
\* A working directory as some earlier activity left it: Build/x86_64 lies
\* inside the source tree and the disk image inside Build/x86_64.
InitFilesystem ==
  /\ serenity_dir \in BOOLEAN
  /\ build_dir \in {b \in BOOLEAN : b => serenity_dir}
  /\ grub_image \in {None} \cup {Some(c) : c \in IF build_dir THEN Contents ELSE {}}
  /\ output_image = [d \in Days |-> None]
  /\ compressed_image = [d \in Days |-> None]
  /\ info_file = None

\* builder = SerenityBuilder(); builder.run()
ProcessStart ==
  /\ pc = Stages[1]
  /\ ret_pc = "none"
  /\ running = {}
  /\ output_name = 0
  /\ original_size = 0
  /\ exit_status = {}
  /\ log = {}
  /\ raised = "none"
  /\ interrupted = FALSE
  /\ stage_log = <<>>
  /\ returned = <<>>
  /\ cmd_log = <<>>
  /\ exit_log = <<>>
  /\ response = "none"

Init ==
  /\ InitFilesystem
  /\ environ \in EnvValues
  /\ today = 1
  /\ run = 1
  /\ prev_exit = {}
  /\ written_by = 0
  /\ ProcessStart

\* ------------------------------------------------------ control of the driver
\* run(): the stage after stage s, "finish" (the closing log lines) after the last.
AfterStage(s) ==
  IF StageIndex(s) = Len(Stages) THEN "finish" ELSE Stages[StageIndex(s) + 1]

\* The driver moves on inside the process.
Goto(l) ==
  /\ pc' = l
  /\ UNCHANGED <<exit_status, log, raised, returned>>

\* The same, after logging msg.
GotoLog(l, msg) ==
  /\ pc' = l
  /\ log' = log \cup {msg}
  /\ UNCHANGED <<exit_status, raised, returned>>

\* A stage returns to run(), which calls the next one.
Return(s) ==
  /\ pc' = AfterStage(s)
  /\ returned' = Append(returned, s)
  /\ UNCHANGED <<exit_status, log, raised>>

\* The same, after logging msg.
ReturnLog(s, msg) ==
  /\ pc' = AfterStage(s)
  /\ returned' = Append(returned, s)
  /\ log' = log \cup {msg}
  /\ UNCHANGED <<exit_status, raised>>

\* Mutant: the abort paths end the process with status 0.
SysExitZero(msg) ==
  /\ pc' = "exited"
  /\ exit_status' = {ExitSuccess}
  /\ log' = log \cup {msg}
  /\ UNCHANGED <<raised, returned>>

\* sys.exit(1) after logging msg: SystemExit is no Exception, so it passes
\* both except clauses of run() and ends the process with status 1.
SysExit(msg) ==
  /\ pc' = "exited"
  /\ exit_status' = {ExitFailure}
  /\ log' = log \cup {msg}
  /\ UNCHANGED <<raised, returned>>

\* An exception e escapes a stage: "except Exception" logs it and exits with 1.
Raise(e) ==
  /\ pc' = "exited"
  /\ exit_status' = {ExitFailure}
  /\ log' = log \cup {MsgFatal}
  /\ raised' = e
  /\ UNCHANGED returned

\* A stage is entered.
Enter(s) == stage_log' = Append(stage_log, s)

\* ---------------------------------------------------------- command runner
\* Mutant: the child is started and the caller goes on without waiting.
BlockedAtNowhere(ret) == ret

\* subprocess.run blocks the caller until the child has terminated.
BlockedAt(ret) == "wait"

\* subprocess.run(cmd, shell=True, cwd=...): the child is started in cwd; a
\* cwd that does not exist raises FileNotFoundError before any child exists.
SubprocessRun(c, cwd_exists, ret) ==
  IF cwd_exists
  THEN /\ running' = running \cup {c}
       /\ cmd_log' = Append(cmd_log, c)
       /\ ret_pc' = ret
       /\ Goto(BlockedAt(ret))
  ELSE /\ UNCHANGED cmdVars
       /\ Raise("FileNotFoundError")

\* Mutant: check=False, no status raises.
CheckFailedNever(status) == FALSE

\* check=True: a non-zero status raises CalledProcessError.
CheckFailed(status) == status /= 0

\* What a running command may do to the files the script looks at.
CommandEffect ==
  /\ \E c \in running :
       \/ /\ c = GitClone
          /\ serenity_dir' = TRUE
          /\ UNCHANGED <<build_dir, grub_image, written_by>>
       \/ /\ c = SerenityImage
          /\ build_dir' = TRUE
          /\ UNCHANGED <<serenity_dir, grub_image, written_by>>
       \/ /\ c = NinjaGrub
          /\ \E data \in Contents : grub_image' = Some(data)
          /\ written_by' = run
          /\ UNCHANGED <<serenity_dir, build_dir>>
  /\ UNCHANGED <<output_image, compressed_image, info_file>>
  /\ UNCHANGED <<ctlVars, cmdVars, locVars, envVars, stage_log, exit_log, response>>

\* run_command: the child ends with some status; 0 returns to the caller, any
\* other status logs the error and exits the process.
RunCommandReturn ==
  /\ pc = "wait"
  /\ \E c \in running \ {GccProbe}, status \in ExitStatuses :
       /\ running' = running \ {c}
       /\ exit_log' = Append(exit_log, <<c, status>>)
       /\ IF CheckFailed(status) THEN SysExit(MsgCommandFailed) ELSE Goto(ret_pc)
  /\ ret_pc' = "none"
  /\ UNCHANGED <<cmd_log, fsVars, locVars, envVars, stage_log, histVars>>

\* --------------------------------------------------------- clone_repository
\* Mutant: the existence check is missing.
RepositoryExistsNever == FALSE

\* if self.serenity_dir.exists():
RepositoryExists == serenity_dir

CloneRepository ==
  /\ pc = "clone_repository"
  /\ Enter("clone_repository")
  /\ IF RepositoryExists
     THEN UNCHANGED cmdVars /\ ReturnLog("clone_repository", MsgSkipClone)
     ELSE SubprocessRun(GitClone, TRUE, "clone_cloned")
  /\ UNCHANGED <<fsVars, locVars, envVars, exit_log, histVars>>

CloneCloned ==
  /\ pc = "clone_cloned"
  /\ Return("clone_repository")
  /\ UNCHANGED <<fsVars, cmdVars, locVars, envVars, stage_log, exit_log, histVars>>

\* ----------------------------------------------------- install_dependencies
\* Mutant: the flag is not looked at.
CIDetectedNever == FALSE

\* Mutant: the flag is compared with "1".
CIDetectedIsOne == environ = Some("1")

\* if os.environ.get('CI'):
CIDetected == Truthy(environ)

InstallDependencies ==
  /\ pc = "install_dependencies"
  /\ Enter("install_dependencies")
  /\ IF CIDetected
     THEN UNCHANGED cmdVars /\ ReturnLog("install_dependencies", MsgSkipDeps)
     ELSE SubprocessRun(AptUpdate, TRUE, "deps_install")
  /\ UNCHANGED <<fsVars, locVars, envVars, exit_log, histVars>>

DepsInstall ==
  /\ pc = "deps_install"
  /\ SubprocessRun(AptInstall, TRUE, "deps_verify")
  /\ UNCHANGED <<fsVars, locVars, envVars, stage_log, exit_log, histVars>>

\* The compiler-version probe is run with subprocess.run directly.
DepsVerify ==
  /\ pc = "deps_verify"
  /\ SubprocessRun(GccProbe, TRUE, "deps_done")
  /\ UNCHANGED <<fsVars, locVars, envVars, stage_log, exit_log, histVars>>

\* The probe ends: status 0 logs the first line of its output (an empty output
\* has no first line: IndexError); any other status leads to the prompt.
ProbeReturn ==
  /\ pc = "wait"
  /\ GccProbe \in running
  /\ \E status \in ExitStatuses, has_output \in BOOLEAN :
       /\ exit_log' = Append(exit_log, <<GccProbe, status>>)
       /\ IF CheckFailed(status) THEN GotoLog("deps_prompt", MsgNoGcc)
          ELSE IF has_output THEN Goto(ret_pc)
          ELSE Raise("IndexError")
  /\ running' = running \ {GccProbe}
  /\ ret_pc' = "none"
  /\ UNCHANGED <<cmd_log, fsVars, locVars, envVars, stage_log, histVars>>

\* Mutant: an answer that is neither yes nor no is asked for again.
PromptAsksAgain ==
  /\ pc = "deps_prompt"
  /\ \E typed \in Responses :
       /\ response' = typed
       /\ IF typed = "EOF" THEN Raise("EOFError")
          ELSE IF Lower(typed) = "y" THEN Goto("deps_done")
          ELSE IF typed = "n" THEN SysExit(MsgNoGcc)
          ELSE Goto("deps_prompt")
  /\ UNCHANGED <<fsVars, cmdVars, locVars, envVars, stage_log, exit_log, written_by>>

\* response = input("Continue anyway? (y/n): ")
Prompt ==
  /\ pc = "deps_prompt"
  /\ \E typed \in Responses :
       /\ response' = typed
       /\ IF typed = "EOF" THEN Raise("EOFError")
          ELSE IF Lower(typed) /= "y" THEN SysExit(MsgNoGcc)
          ELSE Goto("deps_done")
  /\ UNCHANGED <<fsVars, cmdVars, locVars, envVars, stage_log, exit_log, written_by>>

DepsDone ==
  /\ pc = "deps_done"
  /\ Return("install_dependencies")
  /\ UNCHANGED <<fsVars, cmdVars, locVars, envVars, stage_log, exit_log, histVars>>

\* ---------------------------------------------------------- build_toolchain
BuildToolchain ==
  /\ pc = "build_toolchain"
  /\ Enter("build_toolchain")
  /\ SubprocessRun(BuildIt, serenity_dir, "toolchain_ready")
  /\ UNCHANGED <<fsVars, locVars, envVars, exit_log, histVars>>

ToolchainReady ==
  /\ pc = "toolchain_ready"
  /\ Return("build_toolchain")
  /\ UNCHANGED <<fsVars, cmdVars, locVars, envVars, stage_log, exit_log, histVars>>

\* ----------------------------------------------------------- build_serenity
BuildSerenity ==
  /\ pc = "build_serenity"
  /\ Enter("build_serenity")
  /\ SubprocessRun(SerenityImage, serenity_dir, "serenity_built")
  /\ UNCHANGED <<fsVars, locVars, envVars, exit_log, histVars>>

SerenityBuilt ==
  /\ pc = "serenity_built"
  /\ Return("build_serenity")
  /\ UNCHANGED <<fsVars, cmdVars, locVars, envVars, stage_log, exit_log, histVars>>

\* ---------------------------------------------------- build_grub_uefi_image
\* Mutant: the file stays.
UnlinkKeeps(f) == f

\* Path.unlink()
Unlink(f) == None

\* Mutant: a stale image is left where it is.
RemoveExistingKeeps(f) == f

\* if grub_image.exists(): grub_image.unlink()
RemoveExisting(f) == IF Exists(f) THEN Unlink(f) ELSE f

\* Mutant: the check after ninja is missing.
ImageCreatedAlways == TRUE

\* The check after ninja: grub_image.exists()
ImageCreated == Exists(grub_image)

BuildGrubUefiImage ==
  /\ pc = "build_grub_uefi_image"
  /\ Enter("build_grub_uefi_image")
  /\ IF ~build_dir THEN SysExit(MsgNoBuildDir) ELSE Goto("grub_cleanup")
  /\ UNCHANGED <<fsVars, cmdVars, locVars, envVars, exit_log, histVars>>

GrubCleanup ==
  /\ pc = "grub_cleanup"
  /\ grub_image' = RemoveExisting(grub_image)
  /\ written_by' = IF Exists(grub_image') THEN written_by ELSE 0
  /\ IF Exists(grub_image) THEN GotoLog("grub_ninja", MsgRemoving) ELSE Goto("grub_ninja")
  /\ UNCHANGED <<serenity_dir, build_dir, output_image, compressed_image, info_file>>
  /\ UNCHANGED <<cmdVars, locVars, envVars, stage_log, exit_log, response>>

GrubNinja ==
  /\ pc = "grub_ninja"
  /\ SubprocessRun(NinjaGrub, build_dir, "grub_verify")
  /\ UNCHANGED <<fsVars, locVars, envVars, stage_log, exit_log, histVars>>

GrubVerify ==
  /\ pc = "grub_verify"
  /\ IF ~ImageCreated THEN SysExit(MsgNoImage) ELSE Return("build_grub_uefi_image")
  /\ UNCHANGED <<fsVars, cmdVars, locVars, envVars, stage_log, exit_log, histVars>>

\* ----------------------------------------------------------- compress_image
\* Mutant: the file is opened for appending.
OpenWriteAppends(f) == IF Exists(f) THEN f ELSE Some(<<>>)

\* open(path, 'w') / gzip.open(path, 'wb'): the file is created or truncated.
OpenWrite(f) == Some(<<>>)

\* shutil.copy2(src, dst): dst holds what src holds.
Copy2(src) == src

\* datetime.now().strftime('%Y%m%d'): the clock is read; it never runs backwards.
\* output_name is stamped with that day; the source image must exist.
CompressImage ==
  /\ pc = "compress_image"
  /\ Enter("compress_image")
  /\ \E now \in today..MaxDay : today' = now /\ output_name' = now
  /\ IF ~Exists(grub_image)
     THEN original_size' = 0 /\ SysExit(MsgNoDiskImage)
     ELSE original_size' = StSize(grub_image) /\ Goto("compress_copy")
  /\ UNCHANGED <<fsVars, cmdVars, environ, run, prev_exit, interrupted, exit_log, histVars>>

CompressCopy ==
  /\ pc = "compress_copy"
  /\ IF Exists(grub_image)
     THEN /\ output_image' = [output_image EXCEPT ![output_name] = Copy2(grub_image)]
          /\ Goto("compress_open")
     ELSE UNCHANGED output_image /\ Raise("FileNotFoundError")
  /\ UNCHANGED <<serenity_dir, build_dir, grub_image, compressed_image, info_file>>
  /\ UNCHANGED <<cmdVars, locVars, envVars, stage_log, exit_log, histVars>>

\* with open(output_image, 'rb') ... gzip.open(compressed_image, 'wb', compresslevel=9)
CompressOpen ==
  /\ pc = "compress_open"
  /\ compressed_image' =
       [compressed_image EXCEPT ![output_name] = OpenWrite(compressed_image[output_name])]
  /\ Goto("compress_write")
  /\ UNCHANGED <<serenity_dir, build_dir, grub_image, output_image, info_file>>
  /\ UNCHANGED <<cmdVars, locVars, envVars, stage_log, exit_log, histVars>>

\* shutil.copyfileobj(f_in, f_out), and both files are closed.
CompressWrite ==
  /\ pc = "compress_write"
  /\ compressed_image' =
       [compressed_image EXCEPT ![output_name] =
          Some(Data(compressed_image[output_name]) \o GzipCompress(Data(output_image[output_name])))]
  /\ Goto("compress_unlink")
  /\ UNCHANGED <<serenity_dir, build_dir, grub_image, output_image, info_file>>
  /\ UNCHANGED <<cmdVars, locVars, envVars, stage_log, exit_log, histVars>>

\* Mutant: the source image is unlinked, not the copy.
CompressUnlinkSource ==
  /\ pc = "compress_unlink"
  /\ grub_image' = Unlink(grub_image)
  /\ Goto("compress_report")
  /\ UNCHANGED <<serenity_dir, build_dir, output_image, compressed_image, info_file>>
  /\ UNCHANGED <<cmdVars, locVars, envVars, stage_log, exit_log, histVars>>

\* output_image.unlink()
CompressUnlink ==
  /\ pc = "compress_unlink"
  /\ output_image' = [output_image EXCEPT ![output_name] = Unlink(output_image[output_name])]
  /\ Goto("compress_report")
  /\ UNCHANGED <<serenity_dir, build_dir, grub_image, compressed_image, info_file>>
  /\ UNCHANGED <<cmdVars, locVars, envVars, stage_log, exit_log, histVars>>

\* compression_ratio = (1 - compressed_size / original_size) * 100: a source
\* image of size 0 divides by zero; else the stage returns compressed_image.
CompressReport ==
  /\ pc = "compress_report"
  /\ IF ~Exists(compressed_image[output_name]) THEN Raise("FileNotFoundError")
     ELSE IF original_size = 0 THEN Raise("ZeroDivisionError")
     ELSE Return("compress_image")
  /\ original_size' = 0
  /\ UNCHANGED <<output_name, fsVars, cmdVars, envVars, stage_log, exit_log, histVars>>

\* ----------------------------------------------------- create_artifact_info
\* Mutant: the manifest is given the name of the uncompressed copy.
PathNameUncompressed(day) == [day |-> day, suffix |-> ".img"]

\* The names of the artifact: Path.name of the compressed file and Path.stem.
PathName(day) == [day |-> day, suffix |-> ".img.gz"]
PathStem(name) == [name EXCEPT !.suffix = ".img"]

\* What one call writes into build-info.txt.
BuildInfo(day, size) ==
  [ image_file |-> PathName(day),
    image_size |-> FormatMB(size),
    gunzip |-> PathName(day),
    dd_if |-> PathStem(PathName(day)),
    usage |-> UsageBlock,
    hardware |-> HardwareBlock,
    credentials |-> CredentialsBlock ]

\* with open(info_file, 'w') as f:
CreateArtifactInfo ==
  /\ pc = "create_artifact_info"
  /\ Enter("create_artifact_info")
  /\ info_file' = OpenWrite(info_file)
  /\ Goto("info_write")
  /\ UNCHANGED <<serenity_dir, build_dir, grub_image, output_image, compressed_image>>
  /\ UNCHANGED <<cmdVars, locVars, envVars, exit_log, histVars>>

\* The f.write calls; image_path.stat() needs the compressed file.
InfoWrite ==
  /\ pc = "info_write"
  /\ IF Exists(compressed_image[output_name])
     THEN /\ info_file' = Some(Append(Data(info_file),
                                      BuildInfo(output_name, StSize(compressed_image[output_name]))))
          /\ Return("create_artifact_info")
     ELSE UNCHANGED info_file /\ Raise("FileNotFoundError")
  /\ UNCHANGED <<serenity_dir, build_dir, grub_image, output_image, compressed_image>>
  /\ UNCHANGED <<cmdVars, locVars, envVars, stage_log, exit_log, histVars>>

\* ---------------------------------------------------------------- run(), end
\* The closing log lines; run() returns and the interpreter exits with 0.
Finish ==
  /\ pc = "finish"
  /\ pc' = "exited"
  /\ exit_status' = {ExitSuccess}
  /\ UNCHANGED <<log, raised, returned>>
  /\ UNCHANGED <<fsVars, cmdVars, locVars, envVars, stage_log, exit_log, histVars>>

\* Mutant: the handler of the interrupt removes the outputs of the run.
InterruptCleansUp ==
  /\ pc /= "exited"
  /\ interrupted' = TRUE
  /\ running' = {}
  /\ ret_pc' = "none"
  /\ SysExit(MsgInterrupted)
  /\ compressed_image' = [d \in Days |-> None]
  /\ UNCHANGED <<serenity_dir, build_dir, grub_image, output_image, info_file>>
  /\ UNCHANGED <<cmd_log, locVars, environ, today, run, prev_exit, stage_log, exit_log, histVars>>

\* Mutant: the handler only logs the interrupt, and run() returns.
InterruptSwallowed ==
  /\ pc /= "exited"
  /\ interrupted' = TRUE
  /\ running' = {}
  /\ ret_pc' = "none"
  /\ pc' = "exited"
  /\ exit_status' = {ExitSuccess}
  /\ log' = log \cup {MsgInterrupted}
  /\ UNCHANGED <<raised, returned>>
  /\ UNCHANGED <<cmd_log, fsVars, locVars, environ, today, run, prev_exit, stage_log, exit_log, histVars>>

\* except KeyboardInterrupt: an interrupt reaches the process anywhere inside
\* the try block, a running child is killed, and the process exits with 1.
Interrupt ==
  /\ pc /= "exited"
  /\ interrupted' = TRUE
  /\ running' = {}
  /\ ret_pc' = "none"
  /\ SysExit(MsgInterrupted)
  /\ UNCHANGED <<cmd_log, fsVars, locVars, environ, today, run, prev_exit, stage_log, exit_log, histVars>>

\* The steps that read or write files of the working directory.
IOSteps ==
  { "compress_copy", "compress_open", "compress_write", "compress_unlink",
    "create_artifact_info", "info_write" }

\* An I/O error (OSError) in one of those steps escapes the stage.
IOFault ==
  /\ pc \in IOSteps
  /\ Raise("OSError")
  /\ UNCHANGED <<fsVars, cmdVars, locVars, envVars, stage_log, exit_log, histVars>>

\* The operator invokes the script again in the same working directory.
Restart ==
  /\ pc = "exited"
  /\ run < MaxRuns
  /\ run' = run + 1
  /\ prev_exit' = exit_status
  /\ environ' \in EnvValues
  /\ pc' = Stages[1]
  /\ ret_pc' = "none"
  /\ running' = {}
  /\ output_name' = 0
  /\ original_size' = 0
  /\ exit_status' = {}
  /\ log' = {}
  /\ raised' = "none"
  /\ interrupted' = FALSE
  /\ stage_log' = <<>>
  /\ returned' = <<>>
  /\ cmd_log' = <<>>
  /\ exit_log' = <<>>
  /\ response' = "none"
  /\ UNCHANGED <<fsVars, today, written_by>>

Next ==
  \/ CloneRepository \/ CloneCloned
  \/ InstallDependencies \/ DepsInstall \/ DepsVerify \/ ProbeReturn \/ Prompt \/ DepsDone
  \/ BuildToolchain \/ ToolchainReady
  \/ BuildSerenity \/ SerenityBuilt
  \/ BuildGrubUefiImage \/ GrubCleanup \/ GrubNinja \/ GrubVerify
  \/ CompressImage \/ CompressCopy \/ CompressOpen \/ CompressWrite \/ CompressUnlink
  \/ CompressReport
  \/ CreateArtifactInfo \/ InfoWrite
  \/ Finish
  \/ CommandEffect \/ RunCommandReturn
  \/ Interrupt \/ IOFault \/ Restart

Spec == Init /\ [][Next]_vars

\* ------------------------------------------------------------------ fairness
\* The statements of the driver: the interpreter goes on to the next one.
DriverStep ==
  \/ CloneRepository \/ CloneCloned
  \/ InstallDependencies \/ DepsInstall \/ DepsVerify \/ DepsDone
  \/ BuildToolchain \/ ToolchainReady
  \/ BuildSerenity \/ SerenityBuilt
  \/ BuildGrubUefiImage \/ GrubCleanup \/ GrubNinja \/ GrubVerify
  \/ CompressImage \/ CompressCopy \/ CompressOpen \/ CompressWrite \/ CompressUnlink
  \/ CompressReport
  \/ CreateArtifactInfo \/ InfoWrite
  \/ Finish

\* subprocess.run returns: the command that was started ends.
CommandReturns == RunCommandReturn \/ ProbeReturn

\* The runs in which the interpreter keeps executing, every command that was
\* started ends and the operator answers the prompt.  Nothing obliges a
\* command to have an effect, an interrupt or an I/O error to happen, or the
\* operator to invoke the script again.
SpecLive ==
  /\ Init /\ [][Next]_vars
  /\ WF_vars(DriverStep)
  /\ WF_vars(CommandReturns)
  /\ WF_vars(Prompt)

\* ------------------------------------------- compress_image, on any directory
\* run() is about to call compress_image (line 254) in a CI run that found the
\* repository in place; the working directory is in any state, as whatever has
\* access to it may have left it: the precondition of the stage is not assumed.
InitCompress ==
  /\ serenity_dir \in BOOLEAN
  /\ build_dir \in {b \in BOOLEAN : b => serenity_dir}
  /\ grub_image \in {None} \cup {Some(c) : c \in IF build_dir THEN Contents ELSE {}}
  /\ output_image \in [Days -> {None} \cup {Some(c) : c \in Contents}]
  /\ compressed_image \in [Days -> {None} \cup {Some(GzipCompress(c)) : c \in Contents}]
  /\ info_file \in {None, Some(<<>>)}
  /\ environ = Some("true")
  /\ today = 1
  /\ run = 1
  /\ prev_exit = {}
  /\ written_by = 0
  /\ pc = "compress_image"
  /\ ret_pc = "none"
  /\ running = {}
  /\ output_name = 0
  /\ original_size = 0
  /\ exit_status = {}
  /\ log = {MsgSkipClone, MsgSkipDeps}
  /\ raised = "none"
  /\ interrupted = FALSE
  /\ stage_log = SubSeq(Stages, 1, StageIndex("compress_image") - 1)
  /\ returned = SubSeq(Stages, 1, StageIndex("compress_image") - 1)
  /\ cmd_log = <<BuildIt, SerenityImage, NinjaGrub>>
  /\ exit_log = <<<<BuildIt, 0>>, <<SerenityImage, 0>>, <<NinjaGrub, 0>>>>
  /\ response = "none"

\* The rest of run() from that call on.
NextCompress ==
  \/ CompressImage \/ CompressCopy \/ CompressOpen \/ CompressWrite \/ CompressUnlink
  \/ CompressReport
  \/ CreateArtifactInfo \/ InfoWrite
  \/ Finish
  \/ Interrupt \/ IOFault

SpecCompress == InitCompress /\ [][NextCompress]_vars

\* =================================================================== claims
InSeq(x, s) == \E i \in 1..Len(s) : s[i] = x
Last(s) == s[Len(s)]
IsPrefix(a, b) == Len(a) <= Len(b) /\ \A i \in 1..Len(a) : a[i] = b[i]
NoRepeat(s) == \A i, j \in 1..Len(s) : s[i] = s[j] => i = j
Exited == pc = "exited"

\* The stage whose code invokes command c.
StageOf(c) ==
  CASE c = GitClone -> "clone_repository"
    [] c \in {AptUpdate, AptInstall, GccProbe} -> "install_dependencies"
    [] c = BuildIt -> "build_toolchain"
    [] c = SerenityImage -> "build_serenity"
    [] c = NinjaGrub -> "build_grub_uefi_image"

\* The commands of this run that ended with a non-zero status.
FailedCommands == {exit_log[i][1] : i \in {j \in 1..Len(exit_log) : exit_log[j][2] /= 0}}

\* After a command of the set cs has failed: the stage that invoked it is the
\* last stage entered, no command was started after it, and a process that
\* has exited has exited with a non-zero status.
FailFastFor(cs) ==
  \A c \in FailedCommands \cap cs :
    /\ Last(stage_log) = StageOf(c)
    /\ Last(cmd_log) = c
    /\ Exited => exit_status = {ExitFailure}
    /\ c = NinjaGrub => ~InSeq("compress_image", stage_log) /\ ~InSeq("create_artifact_info", stage_log)

\* C1, as claimed: in every stage, once ANY external command the stage invokes
\* has exited non-zero, no later stage runs and the process exits non-zero.
\* The compiler-version probe of install_dependencies refutes it: after its
\* failure the operator may answer "y" and build_toolchain is entered.
C1_FailFastAnyCommand == FailFastFor(Commands)

\* C1, amended: once an external command invoked through run_command (every
\* command but the compiler-version probe) has exited non-zero, the process
\* has exited with a non-zero status, the stage that invoked the command is
\* the last stage entered and no further command was started; after a failed
\* ninja neither compress_image nor create_artifact_info was entered.
C1_FailFast ==
  /\ FailFastFor(Commands \ {GccProbe})
  /\ FailedCommands \ {GccProbe} /= {} => Exited

\* A run in which the packaging command exited non-zero.
C1_Witness ==
  /\ Exited
  /\ Len(exit_log) > 0 /\ Last(exit_log)[1] = NinjaGrub /\ Last(exit_log)[2] /= 0

\* C2, as claimed: a process that has exited has status 0 exactly when all
\* seven stages returned normally in that run.  An interrupt during the
\* closing log lines of run(), after the seventh stage returned, refutes it.
C2_ExitZeroIffAllStages ==
  Exited => (exit_status = {ExitSuccess} <=> returned = Stages)

\* C2, amended: a process that has exited has status 0 or 1; the status is 0
\* exactly when all seven stages returned normally and neither an interrupt
\* nor an exception reached run() before it returned; after an interrupt or
\* an escaped exception the status is non-zero.
C2_TerminalStates ==
  Exited =>
    /\ exit_status \in {{ExitSuccess}, {ExitFailure}}
    /\ exit_status = {ExitSuccess} <=> (returned = Stages /\ ~interrupted /\ raised = "none")
    /\ (interrupted \/ raised /= "none") => exit_status = {ExitFailure}

\* A completed run: all seven stages returned and the status is 0.
C2_Witness == Exited /\ returned = Stages /\ exit_status = {ExitSuccess}

\* C3: when ninja has exited with status 0 and the disk image does not exist
\* once the check after it has been made, the process has exited with a
\* non-zero status, having logged the "not created" error unless an interrupt
\* came first, and neither compress_image nor create_artifact_info was entered.
C3_PostConditionVerified ==
  ( /\ Len(exit_log) > 0 /\ Last(exit_log) = <<NinjaGrub, 0>>
    /\ ~Exists(grub_image)
    /\ pc /= "grub_verify" )
  => /\ Exited
     /\ exit_status = {ExitFailure}
     /\ interrupted \/ MsgNoImage \in log
     /\ ~InSeq("compress_image", stage_log)
     /\ ~InSeq("create_artifact_info", stage_log)

\* ninja exited 0, wrote nothing, and the stage reported the failure.
C3_Witness ==
  /\ Exited /\ MsgNoImage \in log
  /\ Last(exit_log) = <<NinjaGrub, 0>>
  /\ ~Exists(grub_image)

\* C4: in the step that starts ninja the disk image does not exist (an image
\* found when Image Assembly started has been removed), and Image Assembly
\* returns normally only if the image exists when the check is made.
C4_StaleImageRemoved ==
  [][ /\ (~InSeq(NinjaGrub, cmd_log) /\ InSeq(NinjaGrub, cmd_log')) => ~Exists(grub_image')
      /\ (pc = "grub_verify" /\ pc' = AfterStage("build_grub_uefi_image")) => Exists(grub_image)
    ]_vars

\* A stale image was found and removed, and ninja is about to be started.
C4_Witness == pc = "grub_ninja" /\ MsgRemoving \in log /\ ~Exists(grub_image)

\* C5: whenever clone_repository runs with the source directory present, it
\* starts no command, leaves every file as it is, does not end the process
\* and returns to run(); this holds in every invocation of the script.
C5_CloneIdempotent ==
  [][ (pc = "clone_repository" /\ serenity_dir /\ pc' /= pc /\ ~interrupted')
      => /\ cmd_log' = cmd_log
         /\ running' = {}
         /\ fsVars' = fsVars
         /\ exit_status' = {}
         /\ pc' = "install_dependencies"
         /\ returned' = <<"clone_repository">>
    ]_vars

\* The second invocation of the script skipped the clone.
C5_Witness ==
  /\ run = 2
  /\ InSeq("clone_repository", returned)
  /\ ~InSeq(GitClone, cmd_log)
  /\ MsgSkipClone \in log

\* C6: once compress_image has returned normally, the source image has some
\* content, the date-stamped uncompressed copy does not exist, the compressed
\* file exists, and decompressing it gives the content of the source image.
C6_CompressRoundTrip ==
  InSeq("compress_image", returned) =>
    /\ output_name \in Days
    /\ Exists(grub_image) /\ Data(grub_image) /= <<>>
    /\ ~Exists(output_image[output_name])
    /\ Exists(compressed_image[output_name])
    /\ GzipDecompress(Data(compressed_image[output_name])).ok
    /\ GzipDecompress(Data(compressed_image[output_name])).data = Data(grub_image)

\* compress_image returned for an image of the greatest modelled length.
C6_Witness ==
  /\ InSeq("compress_image", returned)
  /\ Len(Data(grub_image)) = MaxLen

\* C7: with the CI flag set (a non-empty value), once install_dependencies
\* has been entered no package-index refresh, package installation or
\* compiler probe was started, no prompt was shown, the stage has returned
\* normally, and the driver goes on with build_toolchain.
C7_CISkip ==
  (Truthy(environ) /\ InSeq("install_dependencies", stage_log)) =>
    /\ \A c \in {AptUpdate, AptInstall, GccProbe} : ~InSeq(c, cmd_log)
    /\ MsgNoGcc \notin log
    /\ InSeq("install_dependencies", returned)
    /\ (Len(stage_log) = 2 /\ ~Exited) => pc = "build_toolchain"

\* Under CI the toolchain build was entered.
C7_Witness ==
  /\ Truthy(environ)
  /\ MsgSkipDeps \in log
  /\ InSeq("build_toolchain", stage_log)

\* The environment was kind to this run: no interrupt, no I/O error, every
\* command that ended returned 0, the probe printed its version line, and the
\* packaging command left a disk image with some content.
BenignRun ==
  /\ ~interrupted
  /\ FailedCommands = {}
  /\ raised \notin {"OSError", "IndexError"}
  /\ Exists(grub_image) /\ Data(grub_image) /= <<>>

\* C8: a run that starts from what a successful run left and in which every
\* command succeeds again exits with status 0, having skipped the clone,
\* removed the old disk image and run the packaging command again, and leaves
\* a compressed artifact made from the new image and a manifest that holds
\* exactly the entry of this run.
C8_RerunSucceeds ==
  (prev_exit = {ExitSuccess} /\ Exited /\ BenignRun) =>
    /\ exit_status = {ExitSuccess}
    /\ ~InSeq(GitClone, cmd_log) /\ MsgSkipClone \in log
    /\ MsgRemoving \in log /\ InSeq(<<NinjaGrub, 0>>, exit_log)
    /\ compressed_image[output_name] = Some(GzipCompress(Data(grub_image)))
    /\ info_file = Some(<<BuildInfo(output_name, StSize(compressed_image[output_name]))>>)

\* The second run, after a successful first one, completed.
C8_Witness ==
  /\ prev_exit = {ExitSuccess}
  /\ Exited /\ exit_status = {ExitSuccess}

\* The manifest holds exactly one entry, which names the compressed artifact
\* of this run and carries the fixed blocks.
ManifestOverwritten ==
  /\ Exists(info_file)
  /\ Len(Data(info_file)) = 1
  /\ Data(info_file)[1].image_file = PathName(output_name)
  /\ Data(info_file)[1].gunzip = PathName(output_name)
  /\ Data(info_file)[1].usage = UsageBlock
  /\ Data(info_file)[1].hardware = HardwareBlock
  /\ Data(info_file)[1].credentials = CredentialsBlock

\* The distance, in hundredths of a byte, between the size the manifest
\* records (hundredths of a MB) and the size of the artifact on disk.
SizeError ==
  LET recorded == Data(info_file)[1].image_size * BytesPerMB
      actual == 100 * StSize(compressed_image[output_name])
  IN  IF recorded >= actual THEN recorded - actual ELSE actual - recorded

\* C9, as claimed: once create_artifact_info has returned, the manifest was
\* overwritten, names the artifact, and records a size EQUAL to the size of
\* the artifact on disk.  The size is written as MB with two decimals, so a
\* 600000-byte artifact is recorded as 0.57 MB: the equality fails.
C9_ManifestExactSize ==
  InSeq("create_artifact_info", returned) => (ManifestOverwritten /\ SizeError = 0)

\* C9, amended: ... and records the size of the artifact on disk at that
\* moment in MB (1024 * 1024 bytes), rounded to two decimals: the recorded
\* value is within half a hundredth of a MB of the size on disk.
C9_ManifestComplete ==
  InSeq("create_artifact_info", returned) => (ManifestOverwritten /\ 2 * SizeError <= BytesPerMB)

\* The manifest of a second run replaced the one a successful first run wrote.
C9_Witness ==
  /\ prev_exit = {ExitSuccess}
  /\ InSeq("create_artifact_info", returned)

\* C10: the stages entered are an initial part of the fixed order, each at
\* most once; so are the stages that returned; a stage is entered only when
\* every stage before it has returned; no command is started twice in a run
\* (so a failed one is never started again), commands are started in the
\* order of their stages, and at most one command runs at any time.
C10_StageOrder ==
  /\ IsPrefix(stage_log, Stages)
  /\ IsPrefix(returned, Stages)
  /\ Len(returned) <= Len(stage_log)
  /\ Len(stage_log) <= Len(returned) + 1
  /\ NoRepeat(cmd_log)
  /\ \A i, j \in 1..Len(cmd_log) :
       i <= j => StageIndex(StageOf(cmd_log[i])) <= StageIndex(StageOf(cmd_log[j]))
  /\ \A i \in 1..Len(cmd_log) : InSeq(StageOf(cmd_log[i]), stage_log)
  /\ Cardinality(running) <= 1

\* A run that entered all seven stages and started all seven commands.
C10_Witness == Len(stage_log) = Len(Stages) /\ Len(cmd_log) = Cardinality(Commands)

\* The answers that confirm at the prompt: "y", typed in either case.
Confirmations == {"y", "Y"}

\* C11: the soft failure is confined to the compiler-version probe.  The
\* warning and the prompt appear exactly when the probe exited non-zero; after
\* a failed probe build_toolchain is entered only if the operator answered
\* "y", and that answer lets install_dependencies go on; any other answer
\* ends the process with a non-zero status inside install_dependencies.  A
\* non-zero exit of apt-get update or apt-get install ends the process with
\* no probe, no warning and no prompt, and after the failure of any command
\* but the probe no later stage is entered.
C11_SoftFailOnlyProbe ==
  /\ MsgNoGcc \in log <=> GccProbe \in FailedCommands
  /\ response /= "none" => GccProbe \in FailedCommands
  /\ (GccProbe \in FailedCommands /\ InSeq("build_toolchain", stage_log))
       => response \in Confirmations
  /\ response \in Confirmations
       => pc = "deps_done" \/ InSeq("install_dependencies", returned) \/ interrupted
  /\ response \notin Confirmations \cup {"none"}
       => /\ Exited /\ exit_status = {ExitFailure}
          /\ Last(stage_log) = "install_dependencies"
  /\ \A c \in FailedCommands \cap {AptUpdate, AptInstall} :
       /\ Exited /\ exit_status = {ExitFailure}
       /\ ~InSeq(GccProbe, cmd_log) /\ MsgNoGcc \notin log /\ response = "none"
  /\ FailFastFor(Commands \ {GccProbe})
  /\ FailedCommands \ {GccProbe} /= {} => Exited

\* The probe failed, the operator answered "y" and build_toolchain was entered.
C11_Witness ==
  /\ GccProbe \in FailedCommands
  /\ response = "y"
  /\ InSeq("build_toolchain", stage_log)

\* C12: when build_grub_uefi_image starts and Build/x86_64 does not exist, that
\* step ends the process with a non-zero status: no command is started (ninja
\* is never invoked), no file of the working directory is created, changed or
\* deleted, and the message logged is "Build directory not found", which is
\* not the message of the check after ninja.
C12_MissingBuildDir ==
  [][ (pc = "build_grub_uefi_image" /\ ~build_dir /\ pc' /= pc)
        => /\ pc' = "exited" /\ exit_status' = {ExitFailure}
           /\ cmd_log' = cmd_log /\ running' = {} /\ ~InSeq(NinjaGrub, cmd_log')
           /\ fsVars' = fsVars
           /\ MsgRemoving \notin log' /\ MsgNoImage \notin log'
           /\ interrupted' \/ MsgNoBuildDir \in log'
           /\ MsgNoBuildDir /= MsgNoImage ]_vars

\* The run ended in build_grub_uefi_image because Build/x86_64 was missing.
C12_Witness ==
  /\ Exited /\ exit_status = {ExitFailure}
  /\ MsgNoBuildDir \in log
  /\ ~build_dir /\ Last(stage_log) = "build_grub_uefi_image"

\* C13: whenever clone_repository has returned normally, work_dir/serenity
\* exists, whatever a git clone that exited with 0 did.  The code does not look
\* at the directory after the command: a git clone that exits with 0 without
\* creating work_dir/serenity lets clone_repository return normally.
C13_CloneCreatesSourceDir ==
  InSeq("clone_repository", returned) => serenity_dir

\* The steps of compress_image.
CompressSteps ==
  { "compress_image", "compress_copy", "compress_open", "compress_write",
    "compress_unlink", "compress_report" }

\* The compressed file of day d is complete: a whole gzip stream of the copy.
CompressionComplete(d) ==
  /\ Exists(compressed_image[d]) /\ Exists(output_image[d])
  /\ GzipDecompress(Data(compressed_image[d])) = [ok |-> TRUE, data |-> Data(output_image[d])]

\* C14: no step of compress_image changes or removes the disk image in
\* Build/x86_64 (nor the source tree, the build tree, the manifest or an
\* existing compressed file); the only file a step deletes is the copy stamped
\* with the day of this call, and when it is deleted the compressed file is a
\* complete gzip stream of it; when the stage starts and the disk image is
\* absent, the process exits with a non-zero status and no file of the working
\* directory is created, changed or deleted.
C14_CompressFrame ==
  [][ (pc \in CompressSteps) =>
        ( /\ grub_image' = grub_image
          /\ serenity_dir' = serenity_dir /\ build_dir' = build_dir
          /\ info_file' = info_file
          /\ \A d \in Days : Exists(compressed_image[d]) => Exists(compressed_image'[d])
          /\ \A d \in Days :
               (Exists(output_image[d]) /\ ~Exists(output_image'[d]))
                 => (d = output_name /\ pc = "compress_unlink" /\ CompressionComplete(d))
          /\ (pc = "compress_image" /\ ~Exists(grub_image))
               => (pc' = "exited" /\ exit_status' = {ExitFailure} /\ fsVars' = fsVars) )
    ]_vars

\* compress_image was called without a disk image and the process has exited:
\* neither the copy nor the compressed file of that day was created.
C14_Witness ==
  /\ Exited /\ exit_status = {ExitFailure}
  /\ MsgNoDiskImage \in log
  /\ ~Exists(grub_image)
  /\ ~Exists(output_image[output_name]) /\ ~Exists(compressed_image[output_name])

\* C15: nothing is rolled back.  Within one run no step, and no error path,
\* removes the source tree or the build tree; once build_grub_uefi_image has
\* returned, the disk image stays as it is; once compress_image has returned,
\* the compressed file stays as it is.  So a run that aborts in a stage ends
\* with every artifact of the stages before it still present.
C15_NoRollback ==
  [][ (run' = run) =>
        ( /\ serenity_dir => serenity_dir'
          /\ build_dir => build_dir'
          /\ InSeq("build_grub_uefi_image", returned)
               => (Exists(grub_image) /\ grub_image' = grub_image)
          /\ InSeq("compress_image", returned)
               => ( /\ Exists(compressed_image[output_name])
                    /\ compressed_image' = compressed_image
                    /\ output_name' = output_name ) )
    ]_vars

\* A run that aborted in create_artifact_info: the source tree, the build
\* tree, the disk image and the compressed file are all present.
C15_Witness ==
  /\ Exited /\ exit_status = {ExitFailure}
  /\ InSeq("compress_image", returned)
  /\ Last(stage_log) = "create_artifact_info"
  /\ InSeq(NinjaGrub, cmd_log) /\ written_by = run
  /\ serenity_dir /\ build_dir /\ Exists(grub_image)
  /\ Exists(compressed_image[output_name])

\* C16: once an interrupt has reached the driver, wherever it was (in a stage,
\* waiting for a command, or at the prompt), the process has exited with a
\* non-zero status, the message of the interrupt is logged and no child is
\* left running; within that run no stage is entered and no command is
\* started after the interrupt, and no further stage returns.
C16_Interrupt ==
  /\ [](interrupted =>
          ( /\ Exited /\ exit_status = {ExitFailure}
            /\ MsgInterrupted \in log
            /\ running = {} ))
  /\ [][ (interrupted /\ run' = run) =>
           (stage_log' = stage_log /\ cmd_log' = cmd_log /\ returned' = returned) ]_vars
  /\ [][ (~interrupted /\ interrupted') =>
           (stage_log' = stage_log /\ cmd_log' = cmd_log /\ returned' = returned) ]_vars

\* The interrupt came while the driver waited at the prompt.
C16_Witness ==
  /\ interrupted /\ Exited
  /\ GccProbe \in FailedCommands /\ response = "none"
  /\ Last(stage_log) = "install_dependencies"

\* C17: when every command that was started ends and the operator answers the
\* prompt, a run that has not ended eventually ends (completed or aborted);
\* no stage is entered twice in a run; and there is no timeout: the driver
\* leaves its wait for a command only when that command ends (or an interrupt
\* kills it), so a command that never ends keeps the run where it is.
C17_Termination ==
  /\ (~Exited) ~> Exited
  /\ [](NoRepeat(stage_log) /\ NoRepeat(cmd_log))
  /\ [][ (pc = "wait" /\ pc' /= "wait") => (running /= {} /\ running' = {}) ]_vars

\* A run that started all seven commands and has ended.
C17_Witness ==
  /\ Exited
  /\ Len(cmd_log) = Cardinality(Commands)

\* C18: the disk image a run compresses is the one ninja wrote in that run.
\* While ninja runs and until the check after it, a disk image that exists was
\* written by this run (an older one was removed first); once
\* build_grub_uefi_image has returned, ninja has exited with 0 and the disk
\* image exists and was written by this run; the copy compress_image works on
\* is that image, the compressed file it leaves holds that image, and the
\* manifest describes that compressed file.
C18_Freshness ==
  /\ (pc \in {"grub_ninja", "grub_verify"} \/ NinjaGrub \in running)
       => (Exists(grub_image) => written_by = run)
  /\ InSeq("build_grub_uefi_image", returned)
       => /\ InSeq(<<NinjaGrub, 0>>, exit_log)
          /\ Exists(grub_image) /\ written_by = run
  /\ pc \in {"compress_open", "compress_write", "compress_unlink"}
       => output_image[output_name] = grub_image
  /\ InSeq("compress_image", returned)
       => compressed_image[output_name] = Some(GzipCompress(Data(grub_image)))
  /\ InSeq("create_artifact_info", returned)
       => info_file = Some(<<BuildInfo(output_name, StSize(compressed_image[output_name]))>>)

\* A run found a disk image of earlier origin, removed it, and compressed the
\* image its own ninja wrote.
C18_Witness ==
  /\ MsgRemoving \in log
  /\ InSeq("compress_image", returned)
  /\ written_by = run

\* C19: a process that has exited with status 0 leaves the compressed file of
\* its day stamp, a complete gzip stream of the disk image, and the manifest,
\* which holds exactly the entry written by this run, naming that compressed
\* file and giving its size; the uncompressed copy is gone and the disk image
\* is still in Build/x86_64.  The manifest is written only by
\* create_artifact_info, and only after compress_image has returned in the
\* same run with the compressed file complete.
C19_FinalState ==
  /\ []( (Exited /\ exit_status = {ExitSuccess}) =>
           ( /\ Exists(grub_image)
             /\ Exists(compressed_image[output_name])
             /\ GzipDecompress(Data(compressed_image[output_name]))
                  = [ok |-> TRUE, data |-> Data(grub_image)]
             /\ ~Exists(output_image[output_name])
             /\ Exists(info_file) /\ Len(Data(info_file)) = 1
             /\ Data(info_file)[1].image_file = [day |-> output_name, suffix |-> ".img.gz"]
             /\ Data(info_file)[1].image_size = FormatMB(StSize(compressed_image[output_name]))
             /\ InSeq("create_artifact_info", returned) ) )
  /\ [][ (info_file' /= info_file) =>
           ( /\ Last(stage_log') = "create_artifact_info"
             /\ InSeq("compress_image", returned)
             /\ Exists(compressed_image[output_name])
             /\ GzipDecompress(Data(compressed_image[output_name])).ok ) ]_vars

\* A second run has exited with status 0, over the outputs of the first.
C19_Witness ==
  /\ Exited /\ exit_status = {ExitSuccess}
  /\ run = MaxRuns /\ prev_exit = {ExitSuccess}
  /\ Exists(info_file) /\ Exists(compressed_image[output_name])

\* C20: a run whose CI variable is set (to a non-empty value) never reaches
\* the prompt: it starts none of the commands of install_dependencies, never
\* warns about the compiler and never waits for an answer.  The prompt is
\* reached only when the variable is unset or empty, apt-get update and
\* apt-get install have both exited with 0 and the probe has exited non-zero.
C20_Unattended ==
  /\ Truthy(environ)
       => /\ pc /= "deps_prompt" /\ response = "none" /\ MsgNoGcc \notin log
          /\ \A c \in {AptUpdate, AptInstall, GccProbe} : ~InSeq(c, cmd_log)
  /\ (pc = "deps_prompt" \/ response /= "none" \/ MsgNoGcc \in log)
       => /\ ~Truthy(environ)
          /\ InSeq(<<AptUpdate, 0>>, exit_log) /\ InSeq(<<AptInstall, 0>>, exit_log)
          /\ GccProbe \in FailedCommands

\* A run without the CI variable waits at the prompt.
C20_Witness ==
  /\ pc = "deps_prompt"
  /\ environ = None

====
